---- MODULE Spec2Model ----
(***************************************************************************)
(* A model of http-rs: the route trie and matcher (router.rs), the HTTP    *)
(* request decoder and response encoder (http.rs), the connection task     *)
(* (server.rs) and the example file handler (main.rs).                     *)
(*                                                                         *)
(* Strings are sequences of one-character strings, so that split, trim,    *)
(* strip_prefix, join and the formatting of numbers are computed as the    *)
(* code computes them.  A HashMap is a function; where the code iterates   *)
(* over a HashMap the iteration order is part of the map's state (next) or *)
(* chosen by the action (headers).                                         *)
(***************************************************************************)
EXTENDS Integers, Sequences, FiniteSets, TLC

VARIABLES
    root_node,   \* Router.root_node: the trie, a function from a node's key path to the node
    user_data,   \* Router.user_data: "None" or "Some"
    request,     \* the HttpRequest handed to Router::fetch, with the params the matcher left
    route,       \* the outcome of Router::fetch
    stream,      \* the bytes the peer sends on the connection
    parsed,      \* the outcome of HttpRequest::parse
    response,    \* the HttpResponse being built or sent
    wire,        \* the bytes written to the socket / returned by get_bytes
    pc           \* the position of the program

vars == <<root_node, user_data, request, route, stream, parsed, response, wire, pc>>

(***************************************************************************)
(* Bounds of the model.                                                    *)
(***************************************************************************)
\* The number of method handlers registered before the server starts.
MaxRoutes == 3

(***************************************************************************)
(* Strings.                                                                *)
(***************************************************************************)
\* str::strip_prefix(c).is_some()
HasPrefix(s, c) == Len(s) > 0 /\ s[1] = c

\* str::split(c).collect(): always at least one piece
RECURSIVE Split(_, _)
Split(s, c) ==
    IF \A i \in 1..Len(s) : s[i] # c
    THEN <<s>>
    ELSE LET i == CHOOSE k \in 1..Len(s) : s[k] = c /\ \A j \in 1..(k - 1) : s[j] # c
         IN  <<SubSeq(s, 1, i - 1)>> \o Split(SubSeq(s, i + 1, Len(s)), c)

\* [&str]::join(c)
RECURSIVE Join(_, _)
Join(parts, c) ==
    IF parts = <<>> THEN <<>>
    ELSE IF Len(parts) = 1 THEN parts[1]
    ELSE parts[1] \o <<c>> \o Join(Tail(parts), c)

\* HashMap::insert on a map modelled as a function
Put(m, k, v) == [x \in (DOMAIN m) \cup {k} |-> IF x = k THEN v ELSE m[x]]

\* The orders in which a HashMap with the key set S can be iterated.
Orderings(S) ==
    {o \in [1..Cardinality(S) -> S] : \A i, j \in DOMAIN o : o[i] = o[j] => i = j}

SeqToSet(s) == {s[i] : i \in DOMAIN s}

(***************************************************************************)
(* More strings: the operations of the decoder and the encoder.            *)
(***************************************************************************)
CR == "\r"
LF == "\n"
CRLF == <<CR, LF>>
SP == " "

\* char::is_whitespace, on the characters of the model
WhiteSpace == {" ", "\t", "\r", "\n"}

\* str::trim
RECURSIVE TrimStart(_)
TrimStart(s) == IF s # <<>> /\ Head(s) \in WhiteSpace THEN TrimStart(Tail(s)) ELSE s

RECURSIVE TrimEnd(_)
TrimEnd(s) ==
    IF s # <<>> /\ s[Len(s)] \in WhiteSpace THEN TrimEnd(SubSeq(s, 1, Len(s) - 1)) ELSE s

Trim(s) == TrimEnd(TrimStart(s))

\* str::find(c): the index of the first c (from 1), 0 for None
Find(s, c) ==
    IF \E i \in 1..Len(s) : s[i] = c
    THEN CHOOSE i \in 1..Len(s) : s[i] = c /\ \A j \in 1..(i - 1) : s[j] # c
    ELSE 0

\* AsyncBufReadExt::read_line on a reader with the bytes buf left: the line
\* read (up to and including the first LF, or up to EOF) and the bytes left.
\* n, the number of bytes read, is Len(line).
read_line(buf) ==
    LET i == Find(buf, LF)
    IN  IF i = 0
        THEN [line |-> buf, rest |-> <<>>]
        ELSE [line |-> SubSeq(buf, 1, i), rest |-> SubSeq(buf, i + 1, Len(buf))]

DigitChars == <<"0", "1", "2", "3", "4", "5", "6", "7", "8", "9">>

\* The decimal digit a character stands for, -1 if it is none.
DigitValue(c) ==
    IF \E d \in 1..10 : DigitChars[d] = c
    THEN (CHOOSE d \in 1..10 : DigitChars[d] = c) - 1
    ELSE -1

\* Display for an unsigned integer (format!("{}", n))
RECURSIVE Digits(_)
Digits(n) == IF n < 10 THEN <<DigitChars[n + 1]>> ELSE Digits(n \div 10) \o <<DigitChars[(n % 10) + 1]>>

\* str::parse::<usize>: [ok, value]; an optional "+", then one or more digits
RECURSIVE DigitsValue(_, _)
DigitsValue(s, acc) ==
    IF s = <<>> THEN acc ELSE DigitsValue(Tail(s), 10 * acc + DigitValue(Head(s)))

ParseUsize(s) ==
    LET d == IF HasPrefix(s, "+") THEN Tail(s) ELSE s
    IN  IF d # <<>> /\ \A i \in 1..Len(d) : DigitValue(d[i]) >= 0
        THEN [ok |-> TRUE, value |-> DigitsValue(d, 0)]
        ELSE [ok |-> FALSE, value |-> 0]

(***************************************************************************)
(* http.rs: HttpMethod, HttpRequest, HttpResponse.                         *)
(***************************************************************************)
GET == <<"G", "E", "T">>
HEAD == <<"H", "E", "A", "D">>
POST == <<"P", "O", "S", "T">>
PUT == <<"P", "U", "T">>
DELETE == <<"D", "E", "L", "E", "T", "E">>
CONNECT == <<"C", "O", "N", "N", "E", "C", "T">>
OPTIONS == <<"O", "P", "T", "I", "O", "N", "S">>
TRACE == <<"T", "R", "A", "C", "E">>
PATCH == <<"P", "A", "T", "C", "H">>

\* enum HttpMethod
Methods == {"Get", "Head", "Post", "Put", "Delete", "Connect", "Options", "Trace", "Patch"}

\* HttpMethod::from: "None" for an unknown token
HttpMethodFrom(s) ==
    IF s = GET THEN "Get"
    ELSE IF s = HEAD THEN "Head"
    ELSE IF s = POST THEN "Post"
    ELSE IF s = PUT THEN "Put"
    ELSE IF s = DELETE THEN "Delete"
    ELSE IF s = CONNECT THEN "Connect"
    ELSE IF s = OPTIONS THEN "Options"
    ELSE IF s = TRACE THEN "Trace"
    ELSE IF s = PATCH THEN "Patch"
    ELSE "None"

\* HashMap::default()
EmptyMap == <<>>

\* HttpRequest::default() (#[derive(Default)])
DefaultRequest ==
    [method |-> "Get", path |-> <<>>, version |-> <<>>, headers |-> EmptyMap,
     query_params |-> EmptyMap, params |-> EmptyMap, body |-> <<>>]

\* Option<String>
NoneString == [some |-> FALSE, value |-> <<>>]
SomeString(s) == [some |-> TRUE, value |-> s]

\* parse_query_params, lines 49-61: the loop over the split elements
RECURSIVE query_loop(_, _)
query_loop(params, query_params_map) ==
    IF params = <<>>
    THEN [some |-> TRUE, map |-> query_params_map]
    ELSE LET param == Head(params)
         IN  IF Len(param) = 0 \/ Len(param) > 2
             THEN [some |-> FALSE, map |-> EmptyMap]
             ELSE LET value == IF Len(param) = 2 THEN SomeString(Trim(param[2]))
                               ELSE NoneString
                  IN  query_loop(Tail(params), Put(query_params_map, Trim(param[1]), value))

\* parse_query_params: Option<HashMap> as [some, map]
parse_query_params(params) ==
    LET elements == Split(params, "&")
    IN  query_loop([i \in 1..Len(elements) |-> Split(elements[i], "=")], EmptyMap)

ContentLength == <<"C", "o", "n", "t", "e", "n", "t", "-", "L", "e", "n", "g", "t", "h">>

\* HttpRequest::parse, lines 158-180: the header loop on a reader with buf
\* left.  status is "Break" (the empty line was read), "Eof" (n == 0) or "Err".
RECURSIVE header_loop(_, _)
header_loop(buf, headers) ==
    LET r == read_line(buf)
        line == Trim(r.line)
        header_seperator == Find(line, ":")
    IN  IF Len(r.line) = 0
        THEN [status |-> "Eof", headers |-> headers, rest |-> r.rest]
        ELSE IF line = <<>>
        THEN [status |-> "Break", headers |-> headers, rest |-> r.rest]
        ELSE IF header_seperator = 0
        THEN [status |-> "Err", headers |-> headers, rest |-> r.rest]
        ELSE LET key == SubSeq(line, 1, header_seperator - 1)
                 value == SubSeq(line, header_seperator + 1, Len(line))
             IN  header_loop(r.rest, Put(headers, Trim(key), Trim(value)))

\* HttpRequest::parse, lines 190-204: the body loop
RECURSIVE body_loop(_, _, _)
body_loop(buf, body, content_length) ==
    IF Len(body) >= content_length
    THEN body
    ELSE LET r == read_line(buf)
         IN  IF Len(r.line) = 0 THEN body
             ELSE body_loop(r.rest, body \o r.line, content_length)

\* HttpRequest::parse, lines 182-205: the body of a request whose header loop
\* left buf on the reader.  One line is read and dropped before the body loop.
read_body(buf, content_length) == body_loop(read_line(buf).rest, <<>>, content_length)

Ok(req) == [status |-> "Ok", request |-> req, error |-> ""]
Err(msg) == [status |-> "Err", request |-> DefaultRequest, error |-> msg]

\* HttpRequest::parse on a reader over the bytes buf
parse(buf) ==
    LET first == read_line(buf)
        request_line == Split(Trim(first.line), " ")
        method == HttpMethodFrom(request_line[1])
        uri == Split(request_line[2], "?")
        query == IF Len(uri) = 2 THEN parse_query_params(uri[2])
                 ELSE [some |-> TRUE, map |-> EmptyMap]
        hl == header_loop(first.rest, EmptyMap)
        present == ContentLength \in DOMAIN hl.headers
        content_length == IF present THEN ParseUsize(hl.headers[ContentLength])
                          ELSE [ok |-> TRUE, value |-> 0]
    IN  IF Len(first.line) = 0 THEN Ok(DefaultRequest)
        ELSE IF Len(request_line) # 3
        THEN Err("request line must be made up of 3 components")
        ELSE IF method = "None" THEN Err("invalid method")
        ELSE IF Len(uri) > 2 \/ Len(uri) = 0 THEN Err("Invalid uri")
        ELSE IF ~query.some THEN Err("invalid query params")
        ELSE IF hl.status = "Eof" THEN Ok(DefaultRequest)
        ELSE IF hl.status = "Err" THEN Err("invalid header")
        ELSE IF ~content_length.ok THEN Err("invalid digit found in string")
        ELSE Ok([method |-> method,
                 path |-> uri[1],
                 version |-> request_line[3],
                 headers |-> hl.headers,
                 query_params |-> query.map,
                 params |-> EmptyMap,
                 body |-> IF present THEN read_body(hl.rest, content_length.value)
                          ELSE <<>>])

\* HttpResponse::new
HttpResponse_new(version, status_code, status_text) ==
    [version |-> version, status_code |-> status_code, status_text |-> status_text,
     headers |-> EmptyMap, body |-> <<>>]

\* HttpResponse::get_bytes, lines 92-94: the loop over the headers, in the
\* iteration order keys
RECURSIVE header_lines(_, _)
header_lines(headers, keys) ==
    IF keys = <<>> THEN <<>>
    ELSE Head(keys) \o <<":", " ">> \o headers[Head(keys)] \o CRLF
         \o header_lines(headers, Tail(keys))

\* HttpResponse::get_bytes: the bytes returned, when the headers are iterated
\* in the order keys
get_bytes(r, keys) ==
    LET status_line == r.version \o <<SP>> \o Digits(r.status_code) \o <<SP>> \o r.status_text
        length == Len(r.body)
    IN  status_line \o CRLF \o ContentLength \o <<":", " ">> \o Digits(length) \o CRLF
        \o header_lines(r.headers, keys) \o CRLF \o r.body

(***************************************************************************)
(* router.rs: the trie.                                                    *)
(***************************************************************************)
\* enum RouterItem
Static(s) == <<"Static", s>>
Param(s) == <<"Param", s>>
Wildcard == <<"Wildcard", <<>>>>

\* enum Handler; Option<&Handler>::None is NoHandler.  id names the closure:
\* the pattern it was registered under.
NoHandler == [kind |-> "None", id |-> <<>>]
WithData(id) == [kind |-> "WithData", id |-> id]
WithoutData(id) == [kind |-> "WithoutData", id |-> id]

\* RouterNode::new().  next holds the keys of the HashMap `next` in its
\* iteration order; the child under key k of the node at path p is the node
\* at path Append(p, k).
NewNode == [handlers |-> EmptyMap, next |-> <<>>]

\* self.handlers.get(&method) on the node at path p
handlers_get(rn, p, method) ==
    IF method \in DOMAIN rn[p].handlers THEN rn[p].handlers[method] ELSE NoHandler

\* The root's path.
Root == <<>>

HasChild(rn, p, item) == Append(p, item) \in DOMAIN rn

\* RouterNode::lookup: Option<&Self> as [some, node]
lookup(rn, p, id) ==
    IF HasChild(rn, p, Static(id))
    THEN [some |-> TRUE, node |-> Append(p, Static(id))]
    ELSE IF HasPrefix(id, ":") /\ HasChild(rn, p, Param(Tail(id)))
    THEN [some |-> TRUE, node |-> Append(p, Param(Tail(id)))]
    ELSE IF HasChild(rn, p, Wildcard)
    THEN [some |-> TRUE, node |-> Append(p, Wildcard)]
    ELSE [some |-> FALSE, node |-> Root]

\* The RouterItem a pattern segment stands for (insert_handler, lines 99-107).
ItemOf(current_segment) ==
    IF HasPrefix(current_segment, ":") THEN Param(Tail(current_segment))
    ELSE IF current_segment = <<"*">> THEN Wildcard
    ELSE Static(current_segment)

\* RouterNode::insert_handler on the node at path p: the set of tries it can
\* leave.  Inserting a new key into `next` may leave the map with any
\* iteration order.
RECURSIVE insert_handler(_, _, _, _, _)
insert_handler(rn, p, method, path, f) ==
    IF path = <<>>
    THEN {[rn EXCEPT ![p].handlers = Put(@, method, f)]}
    ELSE LET item == ItemOf(Head(path))
             q == Append(p, item)
             inserted ==
                 IF q \in DOMAIN rn
                 THEN {rn}
                 ELSE {[rn EXCEPT ![p].next = o] @@ (q :> NewNode) :
                          o \in Orderings(SeqToSet(rn[p].next) \cup {item})}
         IN  UNION {IF item = Wildcard
                    THEN {[r EXCEPT ![q].handlers = Put(@, method, f)]}
                    ELSE insert_handler(r, q, method, Tail(path), f) : r \in inserted}

\* RouterNode::get_handler on the node at path p, with req.method = method and
\* req.params = params on entry: the handler found and req.params on return.
RECURSIVE get_handler(_, _, _, _, _)
RECURSIVE param_loop(_, _, _, _, _, _, _)
RECURSIVE wildcard_loop(_, _, _, _, _, _)

\* lines 149-158: for (item, node) in self.next.iter(), the Wildcard arm
wildcard_loop(rn, p, items, method, params, path) ==
    IF items = <<>>
    THEN [handler |-> NoHandler, params |-> params]
    ELSE IF Head(items) = Wildcard
            /\ handlers_get(rn, Append(p, Head(items)), method) # NoHandler
    THEN [handler |-> handlers_get(rn, Append(p, Head(items)), method),
          params |-> Put(params, <<"*">>, Join(path, "/"))]
    ELSE wildcard_loop(rn, p, Tail(items), method, params, path)

\* The Param arm with req.params.insert moved before the recursive call: the
\* binding is made for every candidate tried, and stays when it is abandoned.
param_loop_mutant(rn, p, items, method, params, current_segment, path) ==
    IF items = <<>>
    THEN [handler |-> NoHandler, params |-> params]
    ELSE IF Head(items)[1] = "Param"
    THEN LET r == get_handler(rn, Append(p, Head(items)), method,
                              Put(params, Head(items)[2], current_segment), path)
         IN  IF r.handler # NoHandler
             THEN r
             ELSE param_loop(rn, p, Tail(items), method, r.params, current_segment, path)
    ELSE param_loop(rn, p, Tail(items), method, params, current_segment, path)

\* lines 138-147: for (item, node) in self.next.iter(), the Param arm
param_loop(rn, p, items, method, params, current_segment, path) ==
    IF items = <<>>
    THEN [handler |-> NoHandler, params |-> params]
    ELSE IF Head(items)[1] = "Param"
    THEN LET r == get_handler(rn, Append(p, Head(items)), method, params, path)
         IN  IF r.handler # NoHandler
             THEN [handler |-> r.handler,
                   params |-> Put(r.params, Head(items)[2], current_segment)]
             ELSE param_loop(rn, p, Tail(items), method, r.params, current_segment, path)
    ELSE param_loop(rn, p, Tail(items), method, params, current_segment, path)

get_handler(rn, p, method, params, path) ==
    IF path = <<>>
    THEN [handler |-> handlers_get(rn, p, method), params |-> params]
    ELSE LET current_segment == Head(path)
             rest == Tail(path)
             found == lookup(rn, p, current_segment)
             first == IF found.some
                      THEN get_handler(rn, found.node, method, params, rest)
                      ELSE [handler |-> NoHandler, params |-> params]
         IN  IF first.handler # NoHandler
             THEN first
             ELSE LET second == param_loop(rn, p, rn[p].next, method, first.params,
                                           current_segment, rest)
                  IN  IF second.handler # NoHandler
                      THEN second
                      ELSE wildcard_loop(rn, p, rn[p].next, method, second.params, rest)

\* Router::insert_route
insert_route(rn, method, path, f) == insert_handler(rn, Root, method, Split(path, "/"), f)

\* The number of (node, method) pairs with a handler bound.
NumHandlers(rn) ==
    Cardinality({nm \in (DOMAIN rn) \X Methods : nm[2] \in DOMAIN rn[nm[1]].handlers})

(***************************************************************************)
(* router.rs: Router.                                                      *)
(***************************************************************************)
\* tests::make_req
make_req(method, path) == [DefaultRequest EXCEPT !.method = method, !.path = path]

\* Router::fetch up to the call of the handler: the handler found, the request
\* as the handler receives it, and what fetch returns: "None", the
\* internal_err response ("InternalErr") or the handler's response ("Handler").
fetch(rn, ud, req) ==
    LET r == get_handler(rn, Root, req.method, req.params, Split(req.path, "/"))
    IN  [handler |-> r.handler,
         request |-> [req EXCEPT !.params = r.params],
         outcome |-> IF r.handler = NoHandler THEN "None"
                     ELSE IF r.handler.kind = "WithData" /\ ud = "None" THEN "InternalErr"
                     ELSE "Handler"]

\* No fetch has been made.
NoRoute == [outcome |-> "Idle", handler |-> NoHandler]

\* The patterns the model registers with get, with post and with get_ctx.
GetPatterns ==
    { <<"/", "u", "/", "a">>,                     \* /u/a
      <<"/", "u", "/", ":", "i">>,                \* /u/:i
      <<"/", "u", "/", "*">>,                     \* /u/*
      <<"/", "u", "/", ":", "n", "/", "x">>,      \* /u/:n/x
      <<"/", ":", "i", "/", ":", "n">>,           \* /:i/:n
      <<"*">> }                                   \* *

PostPatterns ==
    { <<"/", "u", "/", "a">>,                     \* /u/a
      <<"/", "u", "/", "*">> }                    \* /u/*

CtxPatterns ==
    { <<"/", "u", "/", ":", "i">>,                \* /u/:i
      <<"/", "u", "/", ":", "n">> }               \* /u/:n

\* The methods and the paths the model requests.
RequestMethods == {"Get", "Post"}

RequestPaths ==
    { <<"/", "u", "/", "a">>,                     \* /u/a
      <<"/", "u", "/", "b">>,                     \* /u/b
      <<"/", "u", "/", ":", "i">>,                \* /u/:i
      <<"/", "u", "/", "b", "/", "x">>,           \* /u/b/x
      <<"/", "u", "/", "b", "/", "c", "/", "d">>, \* /u/b/c/d
      <<"/", "u", "/">>,                          \* /u/
      <<"/", "u">> }                              \* /u

\* Values the parts of the state take while their component is not running.
NoStream == <<>>
NoParse == [status |-> "Idle"]
NoResponse == [status |-> "Idle"]
NoWire == <<>>

\* Router::new(user_data)
InitRouter ==
    /\ root_node = (Root :> NewNode)
    /\ user_data \in {"None", "Some"}
    /\ request = DefaultRequest
    /\ route = NoRoute
    /\ stream = NoStream
    /\ parsed = NoParse
    /\ response = NoResponse
    /\ wire = NoWire
    /\ pc = "setup"

\* Router::get (generate_http_methods!)
get(path) ==
    /\ pc = "setup"
    /\ NumHandlers(root_node) < MaxRoutes
    /\ root_node' \in insert_route(root_node, "Get", path, WithoutData(path))
    /\ UNCHANGED <<user_data, request, route, stream, parsed, response, wire, pc>>

\* Router::post (generate_http_methods!)
post(path) ==
    /\ pc = "setup"
    /\ NumHandlers(root_node) < MaxRoutes
    /\ root_node' \in insert_route(root_node, "Post", path, WithoutData(path))
    /\ UNCHANGED <<user_data, request, route, stream, parsed, response, wire, pc>>

\* Router::get_ctx (generate_http_methods_with_user_data!)
get_ctx(path) ==
    /\ pc = "setup"
    /\ NumHandlers(root_node) < MaxRoutes
    /\ root_node' \in insert_route(root_node, "Get", path, WithData(path))
    /\ UNCHANGED <<user_data, request, route, stream, parsed, response, wire, pc>>

\* Server::run: the router moves into an Arc and is no longer mutated.
run ==
    /\ pc = "setup"
    /\ pc' = "serving"
    /\ UNCHANGED <<root_node, user_data, request, route, stream, parsed, response, wire>>

\* A connection task calls Router::fetch with a decoded request.
Fetch(method, path) ==
    /\ pc = "serving"
    /\ \E f \in {fetch(root_node, user_data, make_req(method, path))} :
           /\ request' = f.request
           /\ route' = [outcome |-> f.outcome, handler |-> f.handler]
    /\ UNCHANGED <<root_node, user_data, stream, parsed, response, wire, pc>>

NextRouter ==
    \/ \E path \in GetPatterns : get(path)
    \/ \E path \in PostPatterns : post(path)
    \/ \E path \in CtxPatterns : get_ctx(path)
    \/ run
    \/ \E method \in RequestMethods, path \in RequestPaths : Fetch(method, path)

SpecRouter == InitRouter /\ [][NextRouter]_vars

(***************************************************************************)
(* main.rs: the example handler.                                           *)
(***************************************************************************)
HTTP11 == <<"H", "T", "T", "P", "/", "1", ".", "1">>

\* is_safe_path: every component of the path is Normal or CurDir.  A leading
\* "/" is a RootDir component and ".." a ParentDir component; empty
\* components and "." are skipped or CurDir.
is_safe_path(user_path) ==
    /\ ~HasPrefix(user_path, "/")
    /\ \A i \in 1..Len(Split(user_path, "/")) : Split(user_path, "/")[i] # <<".", ".">>

\* The files get_file_bytes can find, and the text of the status lines.
FileContents == {<<>>, <<"a", "b", "c">>}
BAD_PATH == <<"B", "A", "D", " ", "P", "A", "T", "H">>
BAD == <<"B", "A", "D">>
OK == <<"O", "K">>
NOT_FOUND == <<"N", "O", "T", " ", "F", "O", "U", "N", "D">>

\* global_route: the responses it can return for a request; the file system
\* decides between a read error and the contents of a file.
global_route(req) ==
    LET stripped_path == IF HasPrefix(req.path, "/") THEN Tail(req.path) ELSE req.path
    IN  IF ~is_safe_path(stripped_path)
        THEN {HttpResponse_new(HTTP11, 401, BAD_PATH)}
        ELSE {HttpResponse_new(HTTP11, 401, BAD)}
             \cup {[HttpResponse_new(HTTP11, 200, OK) EXCEPT
                       !.headers = Put(EmptyMap, ContentLength, Digits(Len(contents))),
                       !.body = contents] : contents \in FileContents}

(***************************************************************************)
(* The inputs of the decoder: a request line, header lines and what        *)
(* follows them.                                                           *)
(***************************************************************************)
RequestLines ==
    { <<"G", "E", "T", " ", "/", "u", "/", "a", " ", "H", "T", "T", "P", "/", "1", ".", "1", "\r", "\n">>,
        \* `GET /u/a HTTP/1.1\r\n`
      <<"P", "O", "S", "T", " ", "/", "a", "p", "i", "/", "s", "a", "v", "e", " ", "H", "T", "T", "P", "/", "1", ".", "1", "\r", "\n">>,
        \* `POST /api/save HTTP/1.1\r\n`
      <<"G", "E", "T", " ", "/", "s", "?", "q", "=", "r", "&", "v", "&", "m", "=", " ", "H", "T", "T", "P", "/", "1", ".", "1", "\r", "\n">>,
        \* `GET /s?q=r&v&m= HTTP/1.1\r\n`
      <<"G", "E", "T", " ", "/", "s", "?", "a", "&", "&", "b", " ", "H", "T", "T", "P", "/", "1", ".", "1", "\r", "\n">>,
        \* `GET /s?a&&b HTTP/1.1\r\n`
      <<"G", "E", "T", " ", "/", "s", "?", "&", "a", " ", "H", "T", "T", "P", "/", "1", ".", "1", "\r", "\n">>,
        \* `GET /s?&a HTTP/1.1\r\n`
      <<"G", "E", "T", " ", "/", "s", "?", "a", "&", " ", "H", "T", "T", "P", "/", "1", ".", "1", "\r", "\n">>,
        \* `GET /s?a& HTTP/1.1\r\n`
      <<"G", "E", "T", " ", "/", "s", "?", "a", "=", "b", "=", "c", " ", "H", "T", "T", "P", "/", "1", ".", "1", "\r", "\n">>,
        \* `GET /s?a=b=c HTTP/1.1\r\n`
      <<"G", "E", "T", " ", "/", "s", "?", "a", "?", "b", " ", "H", "T", "T", "P", "/", "1", ".", "1", "\r", "\n">>,
        \* `GET /s?a?b HTTP/1.1\r\n`
      <<"g", "e", "t", " ", "/", "u", "/", "a", " ", "H", "T", "T", "P", "/", "1", ".", "1", "\r", "\n">>,
        \* `get /u/a HTTP/1.1\r\n`
      <<"G", "E", "T", " ", "/", "u", "/", "a", "\r", "\n">> }
        \* `GET /u/a\r\n`

HeaderBlocks ==
    { <<>>,
        \* ``
      <<"H", "o", "s", "t", ":", " ", "x", "\r", "\n">>,
        \* `Host: x\r\n`
      <<"C", "o", "n", "t", "e", "n", "t", "-", "L", "e", "n", "g", "t", "h", ":", " ", "1", "1", "\r", "\n">>,
        \* `Content-Length: 11\r\n`
      <<"C", "o", "n", "t", "e", "n", "t", "-", "T", "y", "p", "e", ":", " ", "t", "e", "x", "t", "/", "p", "l", "a", "i", "n", "\r", "\n", "C", "o", "n", "t", "e", "n", "t", "-", "L", "e", "n", "g", "t", "h", ":", " ", "1", "1", "\r", "\n">>,
        \* `Content-Type: text/plain\r\nContent-Length: 11\r\n`
      <<"C", "o", "n", "t", "e", "n", "t", "-", "L", "e", "n", "g", "t", "h", ":", " ", "2", "\r", "\n">>,
        \* `Content-Length: 2\r\n`
      <<"C", "o", "n", "t", "e", "n", "t", "-", "L", "e", "n", "g", "t", "h", ":", " ", "x", "\r", "\n">>,
        \* `Content-Length: x\r\n`
      <<"n", "o", "c", "o", "l", "o", "n", "\r", "\n">> }
        \* `nocolon\r\n`

Tails ==
    { <<>>,
        \* ``
      <<"\r", "\n">>,
        \* `\r\n`
      <<"\r", "\n", "h", "e", "l", "l", "o", " ", "w", "o", "r", "l", "d">>,
        \* `\r\nhello world`
      <<"\r", "\n", "\r", "\n", "h", "e", "l", "l", "o", " ", "w", "o", "r", "l", "d">>,
        \* `\r\n\r\nhello world`
      <<"\r", "\n", "a", "b", "\r", "\n", "c", "d">>,
        \* `\r\nab\r\ncd`
      <<"X", ":", " ", "y">> }
        \* `X: y`

Streams == {rl \o hb \o tl : rl \in RequestLines, hb \in HeaderBlocks, tl \in Tails}
               \cup {<<>>, <<"G", "E", "T", " ", "/", "u", "/", "a", " ", "H", "T", "T", "P", "/", "1", ".", "1">>}

(***************************************************************************)
(* The decoder alone: HttpRequest::parse on a reader over a byte stream.   *)
(***************************************************************************)
InitDecode ==
    /\ root_node = (Root :> NewNode)
    /\ user_data = "None"
    /\ request = DefaultRequest
    /\ route = NoRoute
    /\ stream \in Streams
    /\ parsed = NoParse
    /\ response = NoResponse
    /\ wire = NoWire
    /\ pc = "decode"

Parse ==
    /\ pc = "decode"
    /\ parsed' = parse(stream)
    /\ pc' = "decoded"
    /\ UNCHANGED <<root_node, user_data, request, route, stream, response, wire>>

NextDecode == Parse

SpecDecode == InitDecode /\ [][NextDecode]_vars

(***************************************************************************)
(* The encoder alone: a response is built and serialised.                  *)
(***************************************************************************)
NO_CONTENT == <<"N", "o", " ", "C", "o", "n", "t", "e", "n", "t">>
ContentType == <<"C", "o", "n", "t", "e", "n", "t", "-", "T", "y", "p", "e">>

\* The header values and the bodies the model gives a response.
HeaderKeys == {ContentLength, ContentType}
HeaderValues == {<<"3">>, <<"t", "e", "x", "t", "/", "h", "t", "m", "l">>}
Bodies == {<<>>, <<"a", "b", "c">>, <<"h", "e", "l", "l", "o", " ", "w", "o", "r", "l", "d">>}

InitEncode ==
    /\ root_node = (Root :> NewNode)
    /\ user_data = "None"
    /\ request = DefaultRequest
    /\ route = NoRoute
    /\ stream = NoStream
    /\ parsed = NoParse
    /\ response \in {HttpResponse_new(HTTP11, 200, OK), HttpResponse_new(HTTP11, 204, NO_CONTENT)}
    /\ wire = NoWire
    /\ pc = "response"

\* HttpResponse::insert_header
insert_header(key, value) ==
    /\ pc = "response"
    /\ response' = [response EXCEPT !.headers = Put(@, key, value)]
    /\ UNCHANGED <<root_node, user_data, request, route, stream, parsed, wire, pc>>

\* HttpResponse::set_body
set_body(body) ==
    /\ pc = "response"
    /\ response' = [response EXCEPT !.body = body]
    /\ UNCHANGED <<root_node, user_data, request, route, stream, parsed, wire, pc>>

\* HttpResponse::get_bytes: Vec::append moves the body out of the response.
GetBytes ==
    /\ pc = "response"
    /\ \E keys \in Orderings(DOMAIN response.headers) : wire' = get_bytes(response, keys)
    /\ response' = [response EXCEPT !.body = <<>>]
    /\ UNCHANGED <<root_node, user_data, request, route, stream, parsed, pc>>

NextEncode ==
    \/ \E key \in HeaderKeys, value \in HeaderValues : insert_header(key, value)
    \/ \E body \in Bodies : set_body(body)
    \/ GetBytes

SpecEncode == InitEncode /\ [][NextEncode]_vars

(***************************************************************************)
(* server.rs: the connection task, on the router main.rs builds.           *)
(***************************************************************************)
\* let mut buffer = vec![0; 1024]
BufferSize == 1024

\* HttpResponse::internal_err(message), which Router::fetch calls: a 500
\* response with the message as its body.
INTERNAL_SERVER_ERROR == <<"I", "n", "t", "e", "r", "n", "a", "l", " ", "S", "e", "r", "v", "e", "r", " ", "E", "r", "r", "o", "r">>
USER_DATA_NOT_SET == <<"u", "s", "e", "r", " ", "d", "a", "t", "a", " ", "n", "o", "t", " ", "s", "e", "t">>
HttpResponse_internal_err(message) ==
    [HttpResponse_new(HTTP11, 500, INTERNAL_SERVER_ERROR) EXCEPT !.body = message]

\* The response handle_connection sends when Router::fetch returns None
\* (unwrap_or, lines 64-68).
unwrap_or_response == HttpResponse_new(HTTP11, 401, NOT_FOUND)

\* The bytes one socket.read can return.
ServerStreams == {b \in Streams : 0 < Len(b) /\ Len(b) <= BufferSize}

\* main: Router::new(), router.get("*", global_route), server.run(router);
\* the listener is bound and no connection is open.
Init ==
    /\ root_node \in insert_route((Root :> NewNode), "Get", <<"*">>, WithoutData(<<"*">>))
    /\ user_data = "None"
    /\ request = DefaultRequest
    /\ route = NoRoute
    /\ stream = NoStream
    /\ parsed = NoParse
    /\ response = NoResponse
    /\ wire = NoWire
    /\ pc = "accept"

\* Server::run, lines 37-44: a connection is accepted and its task spawned.
accept ==
    /\ pc \in {"accept", "closed"}
    /\ pc' = "read"
    /\ request' = DefaultRequest
    /\ route' = NoRoute
    /\ stream' = NoStream
    /\ parsed' = NoParse
    /\ response' = NoResponse
    /\ wire' = NoWire
    /\ UNCHANGED <<root_node, user_data>>

\* handle_connection, line 54: the read returns bytes
socket_read(bytes) ==
    /\ pc = "read"
    /\ stream' = bytes
    /\ pc' = "parse"
    /\ UNCHANGED <<root_node, user_data, request, route, parsed, response, wire>>

\* handle_connection, lines 54-58: the read times out, fails, or returns 0;
\* the task returns and the socket is dropped.
socket_read_nothing ==
    /\ pc = "read"
    /\ pc' = "closed"
    /\ UNCHANGED <<root_node, user_data, request, route, stream, parsed, response, wire>>

\* handle_connection with the `?` of line 63 replaced by unwrap_or_default:
\* a ParseError no longer ends the task.
handle_parse_mutant ==
    /\ pc = "parse"
    /\ parsed' = parse(stream)
    /\ request' = parsed'.request
    /\ pc' = "fetch"
    /\ UNCHANGED <<root_node, user_data, route, stream, response, wire>>

\* handle_connection, line 63: HttpRequest::parse(..)?
handle_parse ==
    /\ pc = "parse"
    /\ parsed' = parse(stream)
    /\ IF parsed'.status = "Ok"
       THEN request' = parsed'.request /\ pc' = "fetch"
       ELSE request' = request /\ pc' = "closed"
    /\ UNCHANGED <<root_node, user_data, route, stream, response, wire>>

\* handle_connection, lines 64-68: router.fetch(request), up to the call of
\* the handler, and unwrap_or
handle_fetch ==
    /\ pc = "fetch"
    /\ LET f == fetch(root_node, user_data, request)
       IN  /\ request' = f.request
           /\ route' = [outcome |-> f.outcome, handler |-> f.handler]
           /\ IF f.outcome = "None"
              THEN response' = unwrap_or_response /\ pc' = "write"
              ELSE IF f.outcome = "InternalErr"
              THEN response' = HttpResponse_internal_err(USER_DATA_NOT_SET) /\ pc' = "write"
              ELSE response' = response /\ pc' = "handler"
    /\ UNCHANGED <<root_node, user_data, stream, parsed, wire>>

\* Router::fetch, line 209: route(request).await, the handler being global_route
handle_route ==
    /\ pc = "handler"
    /\ response' \in global_route(request)
    /\ pc' = "write"
    /\ UNCHANGED <<root_node, user_data, request, route, stream, parsed, wire>>

\* handle_connection, lines 70-71: socket.write_all(&response.get_bytes())
socket_write ==
    /\ pc = "write"
    /\ \E keys \in Orderings(DOMAIN response.headers) : wire' = get_bytes(response, keys)
    /\ response' = [response EXCEPT !.body = <<>>]
    /\ pc' = "closed"
    /\ UNCHANGED <<root_node, user_data, request, route, stream, parsed>>

\* handle_connection, line 70: write_all fails after part of the bytes; the
\* task returns the error and the socket is dropped.
socket_write_fails ==
    /\ pc = "write"
    /\ \E keys \in Orderings(DOMAIN response.headers) :
           \E n \in 0..(Len(get_bytes(response, keys)) - 1) :
               wire' = SubSeq(get_bytes(response, keys), 1, n)
    /\ response' = [response EXCEPT !.body = <<>>]
    /\ pc' = "closed"
    /\ UNCHANGED <<root_node, user_data, request, route, stream, parsed>>

\* Server::run, line 37: listener.accept() fails and run returns the error.
accept_fails ==
    /\ pc \in {"accept", "closed"}
    /\ pc' = "stopped"
    /\ UNCHANGED <<root_node, user_data, request, route, stream, parsed, response, wire>>

Next ==
    \/ accept
    \/ accept_fails
    \/ socket_write_fails
    \/ \E bytes \in ServerStreams : socket_read(bytes)
    \/ socket_read_nothing
    \/ handle_parse
    \/ handle_fetch
    \/ handle_route
    \/ socket_write

Spec == Init /\ [][Next]_vars

(***************************************************************************)
(* Properties of the matcher, under SpecRouter.                            *)
(***************************************************************************)
\* Router::fetch has returned for `request`.
Fetched == pc = "serving" /\ route.outcome # "Idle"

\* The segments of the requested path, as get_handler receives them.
Segs == Split(request.path, "/")

\* The pattern a handler was registered under, as RouterItems.
PatternOf(h) == [i \in 1..Len(Split(h.id, "/")) |-> ItemOf(Split(h.id, "/")[i])]

\* The node at path p is the one a descent through Static children alone
\* reaches after Len(p) segments of the request, and a non-empty segment (one
\* a Param can match) is left.
ReachedStatically(p) ==
    /\ Len(p) < Len(Segs)
    /\ \A i \in 1..Len(p) : p[i] = Static(Segs[i])
    /\ Segs[Len(p) + 1] # <<>>

\* The segments after the one the node at path p looks at.
RestAfter(p) == SubSeq(Segs, Len(p) + 2, Len(Segs))

\* The handler the subtree under the child `item` of p holds for the rest of
\* the request; NoHandler if there is no such child.
Leads(p, item) ==
    IF HasChild(root_node, p, item)
    THEN get_handler(root_node, Append(p, item), request.method, EmptyMap, RestAfter(p)).handler
    ELSE NoHandler

\* The Param children of p.
ParamChildren(p) == {item \in SeqToSet(root_node[p].next) : item[1] = "Param"}

\* The handlers reached through a Param child of p.
ParamHandlers(p) == {Leads(p, item) : item \in ParamChildren(p)} \ {NoHandler}

\* The Static children of p.
StaticChildren(p) == {item \in SeqToSet(root_node[p].next) : item[1] = "Static"}

\* C1: where a Static pattern and a Param pattern are registered at the same
\* position for the request's method, a request whose segment is the Static
\* literal resolves to the Static handler, and a request with another segment
\* there resolves to the Param handler.
C1_StaticBeatsParam ==
    Fetched =>
        \A p \in DOMAIN root_node :
            (/\ ReachedStatically(p)
             /\ \E item \in StaticChildren(p) : Leads(p, item) # NoHandler
             /\ ParamHandlers(p) # {})
            => LET current_segment == Segs[Len(p) + 1]
               IN  IF Leads(p, Static(current_segment)) # NoHandler
                   THEN route.handler = Leads(p, Static(current_segment))
                   ELSE HasChild(root_node, p, Static(current_segment))
                        \/ route.handler \in ParamHandlers(p)

\* C2: when a node has a Param child and a Wildcard child that each lead to a
\* handler for the request's method and the rest of the path, the matcher
\* returns the handler reached through the Param child.
C2_ParamBeatsWildcard ==
    Fetched =>
        \A p \in DOMAIN root_node :
            (/\ ReachedStatically(p)
             /\ ~HasChild(root_node, p, Static(Segs[Len(p) + 1]))
             /\ ParamHandlers(p) # {}
             /\ HasChild(root_node, p, Wildcard)
             /\ handlers_get(root_node, Append(p, Wildcard), request.method) # NoHandler)
            => route.handler \in ParamHandlers(p)

\* C3: whenever a request is resolved through a Wildcard child, params["*"] is
\* the segment at the wildcard's position and all segments after it, joined
\* with "/".
C3_WildcardTail ==
    (Fetched /\ route.handler # NoHandler
        /\ PatternOf(route.handler)[Len(PatternOf(route.handler))] = Wildcard)
    => /\ <<"*">> \in DOMAIN request.params
       /\ request.params[<<"*">>] =
              Join(SubSeq(Segs, Len(PatternOf(route.handler)), Len(Segs)), "/")

\* C4: whenever the matcher returns a handler, for every Param segment :name
\* of the matched pattern params[name] is the request's segment at that
\* position.
C4_ParamExtraction ==
    (Fetched /\ route.handler # NoHandler)
    => \A i \in DOMAIN PatternOf(route.handler) :
           PatternOf(route.handler)[i][1] = "Param"
           => /\ i \in DOMAIN Segs
              /\ PatternOf(route.handler)[i][2] \in DOMAIN request.params
              /\ request.params[PatternOf(route.handler)[i][2]] = Segs[i]

\* C10: after any sequence of registrations every node has at most one Param
\* child.
C10_OneParamChild ==
    \A p \in DOMAIN root_node : Cardinality(ParamChildren(p)) <= 1

\* The tries that hold the routes of rn: the same nodes with the same
\* handlers, the children of each of `nodes` in any iteration order.
RECURSIVE Reordered(_, _)
Reordered(rn, nodes) ==
    IF nodes = {}
    THEN {rn}
    ELSE LET p == CHOOSE x \in nodes : TRUE
         IN  UNION {Reordered([rn EXCEPT ![p].next = o], nodes \ {p}) :
                       o \in Orderings(SeqToSet(rn[p].next))}

\* C11: for the registered routes and the request, the matcher returns the
\* same handler and leaves the same parameter bindings whatever the iteration
\* order of each node's children (checked on requests whose segments after
\* the leading "/" are non-empty, which a Param can match).
C11_Deterministic ==
    (Fetched /\ \A i \in 2..Len(Segs) : Segs[i] # <<>>) =>
        \A rn \in Reordered(root_node, DOMAIN root_node) :
            LET f == fetch(rn, user_data, make_req(request.method, request.path))
            IN  /\ f.handler = route.handler
                /\ f.request.params = request.params

\* The names the branch that ends at handler h binds: the Param names of its
\* pattern, and "*" when the pattern ends in a Wildcard.
BoundNames(h) ==
    {PatternOf(h)[i][2] : i \in {j \in DOMAIN PatternOf(h) : PatternOf(h)[j][1] = "Param"}}
        \cup (IF PatternOf(h)[Len(PatternOf(h))] = Wildcard THEN {<<"*">>} ELSE {})

\* C13: when the matcher returns a handler, request.params binds only names
\* of the branch that led to it, a Param name to the request's segment at the
\* Param's position; when it returns no handler, request.params is as it was
\* before the call.
C13_SuccessfulBranchOnly ==
    Fetched =>
        IF route.handler = NoHandler
        THEN request.params = make_req(request.method, request.path).params
        ELSE /\ DOMAIN request.params \subseteq BoundNames(route.handler)
             /\ \A i \in DOMAIN PatternOf(route.handler) :
                    (/\ PatternOf(route.handler)[i][1] = "Param"
                     /\ PatternOf(route.handler)[i][2] \in DOMAIN request.params)
                    => request.params[PatternOf(route.handler)[i][2]] = Segs[i]

\* The matcher tried a Param child that led nowhere, abandoned it, and returned
\* the handler a later Param child led to.
C13_Backtracked ==
    /\ Fetched
    /\ route.handler # NoHandler
    /\ request.params # EmptyMap
    /\ \E p \in DOMAIN root_node :
           /\ ReachedStatically(p)
           /\ \E j, k \in DOMAIN root_node[p].next :
                  /\ j < k
                  /\ root_node[p].next[j][1] = "Param"
                  /\ Leads(p, root_node[p].next[j]) = NoHandler
                  /\ root_node[p].next[k][1] = "Param"
                  /\ Leads(p, root_node[p].next[k]) = route.handler

(***************************************************************************)
(* Properties of the connection task, under Spec.                          *)
(***************************************************************************)
ROUTE_NOT_FOUND == <<"r", "o", "u", "t", "e", " ", "n", "o", "t", " ", "f", "o", "u", "n", "d">>

\* C5: when no handler is registered for the request's method and path, the
\* response sent is a 404 response with the body "route not found".
C5_RouteMiss ==
    (pc = "write" /\ route.outcome = "None")
    => /\ response.status_code = 404
       /\ response.body = ROUTE_NOT_FOUND

\* C12: on one connection the response is written in one step, taken only
\* after the request has been read and decoded and followed by nothing but
\* the close of the connection; bytes reach the socket in that step alone;
\* and once decoding has returned a ParseError no byte is written and the
\* connection is closed.
C12_WriteOrdering ==
    /\ [](pc = "write" => (stream # NoStream /\ parsed.status = "Ok"))
    /\ [][pc = "write" => pc' = "closed"]_vars
    /\ [][pc = "closed" => pc' \in {"read", "stopped"}]_vars
    /\ [][wire' # wire => (pc = "write" \/ (pc' = "read" /\ wire' = NoWire))]_vars
    /\ [](parsed.status = "Err" => (wire = NoWire /\ pc \in {"closed", "stopped"}))

\* A response has been written on a connection, after its request was decoded.
C12_Written == pc = "closed" /\ parsed.status = "Ok" /\ wire # NoWire

(***************************************************************************)
(* Properties of the encoder, under SpecEncode.                            *)
(***************************************************************************)
\* The lines of an encoded response before its first empty line, trimmed.
RECURSIVE WireHead(_)
WireHead(buf) ==
    LET r == read_line(buf)
    IN  IF Len(r.line) = 0 \/ Trim(r.line) = <<>>
        THEN <<>>
        ELSE <<Trim(r.line)>> \o WireHead(r.rest)

\* The bytes of an encoded response after its first empty line.
RECURSIVE WireBody(_)
WireBody(buf) ==
    LET r == read_line(buf)
    IN  IF Len(r.line) = 0 \/ Trim(r.line) = <<>> THEN r.rest ELSE WireBody(r.rest)

\* The line is a "Content-Length:" line.
IsContentLengthLine(line) ==
    /\ Len(line) >= Len(ContentLength) + 1
    /\ SubSeq(line, 1, Len(ContentLength) + 1) = ContentLength \o <<":">>

\* The indexes of the Content-Length lines of the encoded response.
ContentLengthLines == {i \in 1..Len(WireHead(wire)) : IsContentLengthLine(WireHead(wire)[i])}

\* C6: the encoded output contains exactly one Content-Length line, and its
\* value is the number of body bytes emitted.
C6_OneContentLength ==
    wire # NoWire
    => /\ Cardinality(ContentLengthLines) = 1
       /\ \A i \in ContentLengthLines :
              Trim(SubSeq(WireHead(wire)[i], Len(ContentLength) + 2, Len(WireHead(wire)[i])))
                  = Digits(Len(WireBody(wire)))

\* C14: a call of get_bytes (the step that changes the bytes returned) leaves
\* the response's body as it was, and a second call on the response it leaves
\* returns the same bytes.
C14_EncodeLeavesResponse ==
    [][wire' # wire =>
          /\ response'.body = response.body
          /\ \E keys \in Orderings(DOMAIN response'.headers) :
                 get_bytes(response', keys) = wire']_vars

(***************************************************************************)
(* Properties of the decoder, under SpecDecode.                            *)
(***************************************************************************)
\* The stream cut into lines as read_line returns them.
RECURSIVE Lines(_)
Lines(buf) ==
    IF buf = <<>> THEN <<>> ELSE <<read_line(buf).line>> \o Lines(read_line(buf).rest)

\* The fields of the request line.
RequestLineFields == Split(Trim(Lines(stream)[1]), " ")

\* The request target cut at "?".
TargetParts == Split(RequestLineFields[2], "?")

\* The stream begins with a request line of three fields and a known method.
WellFormedRequestLine ==
    /\ stream # <<>>
    /\ Len(RequestLineFields) = 3
    /\ HttpMethodFrom(RequestLineFields[1]) # "None"

\* The stream begins with a valid request line.
ValidRequestLine ==
    /\ WellFormedRequestLine
    /\ Len(TargetParts) <= 2
    /\ Len(TargetParts) = 2 => parse_query_params(TargetParts[2]).some

\* An empty line ends the header block.
HeaderBlockEnded == \E i \in 2..Len(Lines(stream)) : Trim(Lines(stream)[i]) = <<>>

\* What the header loop does on the stream.
HeaderLoop == header_loop(read_line(stream).rest, EmptyMap)

\* C7: when a Content-Length: n header is present, the decoded body is the
\* bytes that immediately follow the empty line ending the headers, read
\* until at least n bytes are accumulated or EOF.
C7_BodyFollowsHeaders ==
    (/\ pc = "decoded"
     /\ parsed.status = "Ok"
     /\ ValidRequestLine
     /\ HeaderLoop.status = "Break"
     /\ ContentLength \in DOMAIN HeaderLoop.headers)
    => parsed.request.body =
           body_loop(HeaderLoop.rest, <<>>, ParseUsize(HeaderLoop.headers[ContentLength]).value)

\* C8: if the stream ends after a valid request line and before the empty
\* line that ends the header block, the decoder returns a ParseError.
C8_EofInHeadersIsError ==
    (pc = "decoded" /\ ValidRequestLine /\ ~HeaderBlockEnded)
    => parsed.status = "Err"

\* The query string has an empty element: two adjacent "&", a leading "&" or
\* a trailing "&".
HasEmptyElement(query) ==
    /\ Len(Split(query, "&")) >= 2
    /\ \E i \in 1..Len(Split(query, "&")) : Split(query, "&")[i] = <<>>

\* C9: a query string with an empty element makes parse_query_params fail and
\* the request decode return a ParseError (checked on streams whose header
\* block is complete, so that the outcome is the query's).
C9_EmptyQueryElementRejected ==
    (/\ pc = "decoded"
     /\ WellFormedRequestLine
     /\ HeaderBlockEnded
     /\ Len(TargetParts) = 2
     /\ HasEmptyElement(TargetParts[2]))
    => /\ ~parse_query_params(TargetParts[2]).some
       /\ parsed.status = "Err"

====
